---- MODULE Spec2Model ----
(***************************************************************************)
(* PackageGraph (packages/cli/src/lib/monorepo/PackageGraph.ts):           *)
(*   fromPackages         builds the graph from package descriptors,       *)
(*   collectPackageNames  closure traversal driven by a collectFn,         *)
(*   listChangedPackages  sorted merge of changed files and package dirs.  *)
(*                                                                         *)
(* Strings that are compared or prefix-matched (directories, file paths)   *)
(* are sequences of UTF-16 code units, so that `<`, sort() and startsWith  *)
(* are modelled on code units as JavaScript computes them.  Package names  *)
(* are only used as Map keys and are TLA+ strings.  A Map is modelled by   *)
(* its key -> value function; the graph itself, whose iteration order the  *)
(* code uses, is the sequence of its nodes in insertion order, and a       *)
(* reference to a node is the node's position in that sequence.            *)
(***************************************************************************)
EXTENDS Integers, Sequences, FiniteSets, TLC

VARIABLES
  pc,                    \* position of the running operation
  error,                 \* the Error thrown, NoError while none
  packages,              \* fromPackages: the argument
  graph,                 \* the PackageGraph (this / the local `graph`)
  idx,                   \* position of the for-of loop of the running operation
  startingPackageNames,  \* collectPackageNames: first argument
  collectFn,             \* collectPackageNames: second argument, per node name
  targets,               \* collectPackageNames: const targets
  searchNames,           \* collectPackageNames: const searchNames
  calls,                 \* collectPackageNames: the nodes collectFn was called with
  changedFiles,          \* listChangedPackages: result of listChangedFiles
  dirMap,                \* listChangedPackages: const dirMap
  packageDirs,           \* listChangedPackages: const packageDirs
  searchIndex,           \* listChangedPackages: let searchIndex
  result                 \* listChangedPackages: const result

vars == <<pc, error, packages, graph, idx, startingPackageNames, collectFn,
          targets, searchNames, calls, changedFiles, dirMap, packageDirs,
          searchIndex, result>>

buildVars   == <<packages>>
collectVars == <<startingPackageNames, collectFn, targets, searchNames, calls>>
changedVars == <<changedFiles, dirMap, packageDirs, searchIndex, result>>

----------------------------------------------------------------------------
(* Bounds of the checked inputs *)

MaxPackages == 3   \* descriptors handed to fromPackages
MaxNodes == 2      \* packages of the graph listChangedPackages runs on
MaxDepEntries == 3 \* dependency entries over all descriptors of one input
MaxStart == 2      \* length of startingPackageNames
MaxCollected == 2  \* length of one collectFn result
MaxFiles == 3      \* length of the changed-file list

----------------------------------------------------------------------------
(* Strings as sequences of code units *)

dash == <<45>>   \* "-"
sep  == <<47>>   \* "/"  posixPath.sep
dot  == <<46>>   \* "."
a    == <<97>>   \* "a"
b    == <<98>>   \* "b"

\* s < t on JavaScript strings: code-unit lexicographic order
RECURSIVE StrLess(_, _)
StrLess(s, t) ==
  IF t = <<>> THEN FALSE
  ELSE IF s = <<>> THEN TRUE
  ELSE IF s[1] # t[1] THEN s[1] < t[1]
  ELSE StrLess(Tail(s), Tail(t))

\* String.prototype.startsWith
startsWith(s, p) == Len(s) >= Len(p) /\ SubSeq(s, 1, Len(p)) = p

\* insertion of one string into a sorted array, after its equals
RECURSIVE InsertSorted(_, _)
InsertSorted(s, sorted) ==
  IF sorted = <<>> THEN <<s>>
  ELSE IF StrLess(s, Head(sorted)) THEN <<s>> \o sorted
  ELSE <<Head(sorted)>> \o InsertSorted(s, Tail(sorted))

\* Array.prototype.sort() with the default comparator
sort_omitted(arr) == arr
RECURSIVE sort(_)
sort(arr) ==
  IF arr = <<>> THEN <<>>
  ELSE InsertSorted(arr[Len(arr)], sort(SubSeq(arr, 1, Len(arr) - 1)))

NoError == [kind |-> "none"]
EmptyMap == [k \in {} |-> 0]
Range(f) == {f[k] : k \in DOMAIN f}

----------------------------------------------------------------------------
(* The graph: Map<string, PackageGraphNode> *)

\* Map.prototype.has / get on the graph; get returns the node's position, 0 for undefined
graphKeys(g) == {g[k].name : k \in DOMAIN g}
graphGet_lastOnly(g, name) ==
  IF g # <<>> /\ g[Len(g)].name = name THEN Len(g) ELSE 0
graphGet(g, name) ==
  IF name \in graphKeys(g) THEN CHOOSE k \in DOMAIN g : g[k].name = name ELSE 0

\* the node object created for one package
NewNode(pkg) ==
  [name |-> pkg.packageJson.name,
   dir |-> pkg.dir,
   packageJson |-> pkg.packageJson,
   allLocalDependencies |-> EmptyMap,
   publishedLocalDependencies |-> EmptyMap,
   localDependencies |-> EmptyMap,
   localDevDependencies |-> EmptyMap,
   localOptionalDependencies |-> EmptyMap]

\* map.set(depName, depPkg) for every depName of `names` that graph.get finds
SetLocal_unchecked(map, names, g) ==
  [d \in DOMAIN map \cup names |-> IF d \in names THEN graphGet(g, d) ELSE map[d]]
SetLocal(map, names, g) ==
  [d \in DOMAIN map \cup {n \in names : graphGet(g, n) # 0} |->
     IF d \in names THEN graphGet(g, d) ELSE map[d]]

\* for (const depName of Object.keys(node.packageJson.dependencies || {}))
DependenciesLoop(node, g) ==
  LET names == node.packageJson.dependencies
  IN [node EXCEPT !.allLocalDependencies = SetLocal(@, names, g),
                  !.publishedLocalDependencies = SetLocal(@, names, g),
                  !.localDependencies = SetLocal(@, names, g)]

\* for (const depName of Object.keys(node.packageJson.devDependencies || {}))
DevDependenciesLoop_published(node, g) ==
  LET names == node.packageJson.devDependencies
  IN [node EXCEPT !.allLocalDependencies = SetLocal(@, names, g),
                  !.publishedLocalDependencies = SetLocal(@, names, g),
                  !.localDevDependencies = SetLocal(@, names, g)]
DevDependenciesLoop(node, g) ==
  LET names == node.packageJson.devDependencies
  IN [node EXCEPT !.allLocalDependencies = SetLocal(@, names, g),
                  !.localDevDependencies = SetLocal(@, names, g)]

\* for (const depName of Object.keys(node.packageJson.optionalDependencies || {}))
OptionalDependenciesLoop(node, g) ==
  LET names == node.packageJson.optionalDependencies
  IN [node EXCEPT !.allLocalDependencies = SetLocal(@, names, g),
                  !.publishedLocalDependencies = SetLocal(@, names, g),
                  !.localOptionalDependencies = SetLocal(@, names, g)]

\* the body of `for (const node of graph.values())`
PopulateNode(node, g) ==
  OptionalDependenciesLoop(DevDependenciesLoop(DependenciesLoop(node, g), g), g)

----------------------------------------------------------------------------
(* Inputs of fromPackages *)

PkgNames == {"a", "b"}             \* names of the local packages
DepNames == <<"a", "x">>           \* names a package.json can depend on; "x" is external
DepKinds == <<"dependencies", "devDependencies", "optionalDependencies">>

TargetRoot == sep \o <<114>>   \* paths.targetRoot, "/r"

\* the absolute directory of the package at root-relative path rel
AbsDir(rel) == IF rel = <<>> THEN TargetRoot ELSE TargetRoot \o sep \o rel

\* the packages of one input lie in distinct directories: "a", "aa", "aaa", ...
PositionDir(i) == AbsDir([k \in 1..i |-> 97])

\* the subsets of 1..n with at most k elements
RECURSIVE SubsetsUpTo(_, _)
SubsetsUpTo(n, k) ==
  IF n = 0 \/ k = 0 THEN {{}}
  ELSE SubsetsUpTo(n - 1, k) \cup {s \cup {n} : s \in SubsetsUpTo(n - 1, k - 1)}

\* Dependency entries are numbered: entry e of descriptor i says that the
\* descriptor lists DepNames[d] under DepKinds[k].  An absent field and an
\* empty object give the same Object.keys(f || {}).
EntriesPerPackage == Len(DepKinds) * Len(DepNames)
Entry(i, k, d) == (i - 1) * EntriesPerPackage + (k - 1) * Len(DepNames) + d
Listed(i, k, entries) ==
  {DepNames[d] : d \in {e \in 1..Len(DepNames) : Entry(i, k, e) \in entries}}

Descriptor(name, dir, i, entries) ==
  [dir |-> dir,
   packageJson |->
     [name |-> name,
      dependencies |-> Listed(i, 1, entries),
      devDependencies |-> Listed(i, 2, entries),
      optionalDependencies |-> Listed(i, 3, entries)]]

\* the list of n descriptors with the given names and dependency entries
PackageList(n, names, entries) ==
  [i \in 1..n |-> Descriptor(names[i], PositionDir(i), i, entries)]

----------------------------------------------------------------------------
(* fromPackages *)

Idle ==
  /\ startingPackageNames = <<>> /\ collectFn = EmptyMap /\ targets = {}
  /\ searchNames = <<>> /\ calls = <<>>
  /\ changedFiles = <<>> /\ dirMap = EmptyMap /\ packageDirs = <<>>
  /\ searchIndex = 0 /\ result = <<>>

InitBuild ==
  /\ \E n \in 0..MaxPackages :
       \E names \in [1..n -> PkgNames] :
         \E entries \in SubsetsUpTo(n * EntriesPerPackage, MaxDepEntries) :
           packages = PackageList(n, names, entries)
  /\ graph = <<>>
  /\ pc = "add"
  /\ idx = 1
  /\ error = NoError
  /\ Idle

DuplicateError(pkg, existingPkg) ==
  [kind |-> "Duplicate package name", name |-> pkg.packageJson.name,
   at |-> pkg.dir, and |-> existingPkg.dir]

\* one iteration of `for (const pkg of packages)`
AddPackage ==
  /\ pc = "add"
  /\ idx <= Len(packages)
  /\ LET pkg == packages[idx]
         existingPkg == graphGet(graph, pkg.packageJson.name)
     IN IF existingPkg # 0
        THEN /\ error' = DuplicateError(pkg, graph[existingPkg])
             /\ pc' = "failed"
             /\ UNCHANGED <<graph, idx>>
        ELSE /\ graph' = Append(graph, NewNode(pkg))
             /\ idx' = idx + 1
             /\ UNCHANGED <<pc, error>>
  /\ UNCHANGED <<buildVars, collectVars, changedVars>>

\* the first loop is exhausted: on to the population pass
StartPopulate ==
  /\ pc = "add"
  /\ idx > Len(packages)
  /\ pc' = "populate"
  /\ idx' = 1
  /\ UNCHANGED <<error, graph, buildVars, collectVars, changedVars>>

\* one iteration of `for (const node of graph.values())`
Populate ==
  /\ pc = "populate"
  /\ idx <= Len(graph)
  /\ graph' = [graph EXCEPT ![idx] = PopulateNode(@, graph)]
  /\ idx' = idx + 1
  /\ UNCHANGED <<pc, error, buildVars, collectVars, changedVars>>

\* return graph
ReturnGraph ==
  /\ pc = "populate"
  /\ idx > Len(graph)
  /\ pc' = "done"
  /\ UNCHANGED <<error, graph, idx, buildVars, collectVars, changedVars>>

NextBuild == AddPackage \/ StartPopulate \/ Populate \/ ReturnGraph

SpecBuild == InitBuild /\ [][NextBuild]_vars

----------------------------------------------------------------------------
(* collectPackageNames *)

GraphNames == <<"a", "b">>        \* keys of the traversed graph, in insertion order
OtherNames == {"x"}               \* names that are not keys of it
SearchableNames == Range(GraphNames) \cup OtherNames

\* a graph node without local dependencies, as the first loop of fromPackages makes it
PlainNode(name, dir) ==
  NewNode([dir |-> dir,
           packageJson |-> [name |-> name, dependencies |-> {},
                            devDependencies |-> {}, optionalDependencies |-> {}]])

SeqsUpTo(S, n) == UNION {[1..k -> S] : k \in 0..n}

\* what collectFn returns: undefined, or an Iterable<string> (given as its items in order)
Undefined == [present |-> FALSE, names |-> <<>>]
Iterable(names) == [present |-> TRUE, names |-> names]
CollectResults ==
  {Undefined} \cup {Iterable(names) : names \in SeqsUpTo(SearchableNames, MaxCollected)}

InitCollect ==
  /\ graph = [k \in DOMAIN GraphNames |-> PlainNode(GraphNames[k], PositionDir(k))]
  /\ startingPackageNames \in SeqsUpTo(SearchableNames, MaxStart)
  /\ collectFn \in [Range(GraphNames) -> CollectResults]
  /\ targets = {}                          \* new Set<string>()
  /\ searchNames = startingPackageNames    \* startingPackageNames.slice()
  /\ calls = <<>>
  /\ pc = "search"
  /\ error = NoError
  /\ packages = <<>> /\ idx = 0
  /\ changedFiles = <<>> /\ dirMap = EmptyMap /\ packageDirs = <<>>
  /\ searchIndex = 0 /\ result = <<>>

\* searchNames.pop(): the element returned and the array left
Popped(arr) == arr[Len(arr)]
AfterPop_kept(arr) == arr
AfterPop(arr) == SubSeq(arr, 1, Len(arr) - 1)

\* targets.has(name)
AlreadyAdded_never(name, set) == FALSE
AlreadyAdded(name, set) == name \in set

\* if (collected) searchNames.push(...collected)
Push_first(arr, collected) ==
  IF collected.present /\ collected.names # <<>>
  THEN arr \o <<collected.names[1]>> ELSE arr
Push_known(arr, collected) ==
  IF collected.present
  THEN arr \o SelectSeq(collected.names, LAMBDA n : graphGet(graph, n) # 0)
  ELSE arr
Push(arr, collected) ==
  IF collected.present THEN arr \o collected.names ELSE arr

NotFoundError(name) == [kind |-> "Package not found", name |-> name]

\* a loop iteration that ends at `continue`
SkipAdded ==
  /\ pc = "search"
  /\ searchNames # <<>>
  /\ AlreadyAdded(Popped(searchNames), targets)
  /\ searchNames' = AfterPop(searchNames)
  /\ UNCHANGED <<pc, error, graph, idx, startingPackageNames, collectFn, targets,
                 calls, buildVars, changedVars>>

\* a loop iteration that ends at `throw`
ThrowNotFound ==
  /\ pc = "search"
  /\ searchNames # <<>>
  /\ LET name == Popped(searchNames)
     IN /\ ~AlreadyAdded(name, targets)
        /\ graphGet(graph, name) = 0
        /\ error' = NotFoundError(name)
  /\ searchNames' = AfterPop(searchNames)
  /\ pc' = "failed"
  /\ UNCHANGED <<graph, idx, startingPackageNames, collectFn, targets, calls,
                 buildVars, changedVars>>

\* a loop iteration that adds the name and calls collectFn with its node
Visit ==
  /\ pc = "search"
  /\ searchNames # <<>>
  /\ LET name == Popped(searchNames)
         node == graphGet(graph, name)
     IN /\ ~AlreadyAdded(name, targets)
        /\ node # 0
        /\ targets' = targets \cup {name}
        /\ calls' = Append(calls, [name |-> name, node |-> node])
        /\ searchNames' = Push(AfterPop(searchNames), collectFn[graph[node].name])
  /\ UNCHANGED <<pc, error, graph, idx, startingPackageNames, collectFn,
                 buildVars, changedVars>>

\* searchNames.length is 0: return targets
ReturnTargets ==
  /\ pc = "search"
  /\ searchNames = <<>>
  /\ pc' = "done"
  /\ UNCHANGED <<error, graph, idx, collectVars, buildVars, changedVars>>

NextCollect == SkipAdded \/ ThrowNotFound \/ Visit \/ ReturnTargets

SpecCollect == InitCollect /\ [][NextCollect]_vars

\* the loop runs to its end: nothing suspends or preempts the synchronous call
SpecCollectFair == SpecCollect /\ WF_vars(NextCollect)

----------------------------------------------------------------------------
(* listChangedPackages *)

\* path.relative(from, to) for a `to` that is `from` or lies below it
relativePath(from, to) ==
  IF to = from THEN <<>> ELSE SubSeq(to, Len(from) + 2, Len(to))

\* posixPath.normalize on a path without "." and ".." segments:
\* the empty path becomes ".", runs of separators become one separator
RECURSIVE CollapseSeparators(_)
CollapseSeparators(path) ==
  IF Len(path) < 2 THEN path
  ELSE IF <<path[1]>> = sep /\ <<path[2]>> = sep THEN CollapseSeparators(Tail(path))
  ELSE <<path[1]>> \o CollapseSeparators(Tail(path))
normalize(path) == IF path = <<>> THEN dot ELSE CollapseSeparators(path)

\* the key of a package in dirMap
DirKey_bare(pkg) == normalize(relativePath(TargetRoot, pkg.dir))
DirKey(pkg) == normalize(relativePath(TargetRoot, pkg.dir)) \o sep

\* new Map(Array.from(this.values()).map(pkg => [key, pkg])): the last package of a key stays
NewDirMap(g) ==
  [key \in {DirKey(g[k]) : k \in DOMAIN g} |->
     CHOOSE k \in DOMAIN g :
       DirKey(g[k]) = key /\ \A j \in DOMAIN g : DirKey(g[j]) = key => j <= k]

\* Array.from(dirMap.keys()), in some order (it is sorted before use)
RECURSIVE KeysArray(_)
KeysArray(keys) ==
  IF keys = {} THEN <<>>
  ELSE LET key == CHOOSE key \in keys : TRUE
       IN <<key>> \o KeysArray(keys \ {key})

\* changedFiles[i], 0-based; <<>> stands for undefined
HasFileAt(files, i) == i < Len(files)
FileAt(files, i) == files[i + 1]

\* while (searchIndex < changedFiles.length && changedFiles[searchIndex] < packageDir)
RECURSIVE SkipBefore(_, _, _)
SkipBefore(files, i, packageDir) ==
  IF HasFileAt(files, i) /\ StrLess(FileAt(files, i), packageDir)
  THEN SkipBefore(files, i + 1, packageDir)
  ELSE i

\* changedFiles[searchIndex]?.startsWith(packageDir)
Matches(files, i, packageDir) ==
  HasFileAt(files, i) /\ startsWith(FileAt(files, i), packageDir)

\* while (changedFiles[searchIndex]?.startsWith(packageDir))
RECURSIVE SkipMatching(_, _, _)
SkipMatching(files, i, packageDir) ==
  IF Matches(files, i, packageDir) THEN SkipMatching(files, i + 1, packageDir) ELSE i

\* root-relative package directories and changed files of the checked inputs
DirUniverse == {<<>>, a, a \o dash, a \o a, a \o sep \o a}
FileUniverse ==
  {dash, a, a \o dash \o sep \o b, a \o sep \o dash, a \o sep \o a \o sep \o b,
   a \o sep \o b, a \o a \o sep \o b, b}
NodeNames == <<"a", "b", "c", "d">>

InitChanged ==
  /\ \E n \in 0..MaxNodes :
       \E dirs \in [1..n -> DirUniverse] :
         /\ \A j, k \in 1..n : j # k => dirs[j] # dirs[k]
         /\ graph = [k \in 1..n |-> PlainNode(NodeNames[k], AbsDir(dirs[k]))]
  /\ changedFiles \in SeqsUpTo(FileUniverse, MaxFiles)   \* await listChangedFiles(ref)
  /\ pc = "start"
  /\ error = NoError
  /\ dirMap = EmptyMap /\ packageDirs = <<>> /\ searchIndex = 0 /\ result = <<>>
  /\ idx = 0
  /\ packages = <<>>
  /\ startingPackageNames = <<>> /\ collectFn = EmptyMap /\ targets = {}
  /\ searchNames = <<>> /\ calls = <<>>

\* from `const dirMap` to `packageDirs.sort()`
SortInputs ==
  /\ pc = "start"
  /\ dirMap' = NewDirMap(graph)
  /\ packageDirs' = sort(KeysArray(DOMAIN NewDirMap(graph)))
  /\ changedFiles' = sort(changedFiles)
  /\ result' = <<>>
  /\ searchIndex' = 0
  /\ idx' = 1
  /\ pc' = "match"
  /\ UNCHANGED <<error, graph, buildVars, collectVars>>

\* an iteration of `for (const packageDir of packageDirs)` that finds a changed file
MarkChanged ==
  /\ pc = "match"
  /\ idx <= Len(packageDirs)
  /\ LET packageDir == packageDirs[idx]
         at == SkipBefore(changedFiles, searchIndex, packageDir)
     IN /\ Matches(changedFiles, at, packageDir)
        /\ result' = Append(result, dirMap[packageDir])
        /\ searchIndex' = SkipMatching(changedFiles, at + 1, packageDir)
  /\ idx' = idx + 1
  /\ UNCHANGED <<pc, error, graph, changedFiles, dirMap, packageDirs,
                 buildVars, collectVars>>

\* an iteration that finds none and moves on to the next package dir
MoveOn ==
  /\ pc = "match"
  /\ idx <= Len(packageDirs)
  /\ LET packageDir == packageDirs[idx]
         at == SkipBefore(changedFiles, searchIndex, packageDir)
     IN /\ ~Matches(changedFiles, at, packageDir)
        /\ searchIndex' = at
  /\ idx' = idx + 1
  /\ UNCHANGED <<pc, error, graph, changedFiles, dirMap, packageDirs, result,
                 buildVars, collectVars>>

\* return result
ReturnResult ==
  /\ pc = "match"
  /\ idx > Len(packageDirs)
  /\ pc' = "done"
  /\ UNCHANGED <<error, graph, idx, changedVars, buildVars, collectVars>>

NextChanged == SortInputs \/ MarkChanged \/ MoveOn \/ ReturnResult

SpecChanged == InitChanged /\ [][NextChanged]_vars

----------------------------------------------------------------------------
(* Properties of fromPackages *)

NameAt(i) == packages[i].packageJson.name
HasDuplicateName == \E i, j \in DOMAIN packages : i < j /\ NameAt(i) = NameAt(j)

\* C8: fromPackages throws whenever two descriptors of the input share a
\* name, at any positions: it never gets past the first loop with such an
\* input, and the error carries the shared name, the directory of the later
\* descriptor and the directory of the earlier one.  When it returns, all
\* names are distinct and the graph has exactly one node per descriptor,
\* stored under the descriptor's name with its dir and packageJson.
C8_DuplicateNameFails ==
  /\ pc \in {"populate", "done"} => ~HasDuplicateName
  /\ pc = "failed" =>
       \E i, j \in DOMAIN packages :
         /\ i < j /\ NameAt(i) = NameAt(j)
         /\ error = [kind |-> "Duplicate package name", name |-> NameAt(j),
                     at |-> packages[j].dir, and |-> packages[i].dir]
  /\ pc = "done" =>
       /\ Len(graph) = Len(packages)
       /\ graphKeys(graph) = {NameAt(i) : i \in DOMAIN packages}
       /\ \A i \in DOMAIN packages :
            LET node == graph[graphGet(graph, NameAt(i))]
            IN /\ node.name = NameAt(i)
               /\ node.dir = packages[i].dir
               /\ node.packageJson = packages[i].packageJson

\* the first and the third descriptor share a name and the error names both directories
C8_Witness ==
  /\ pc = "failed"
  /\ Len(packages) = 3
  /\ NameAt(1) = NameAt(3) /\ NameAt(1) # NameAt(2)
  /\ error.at = PositionDir(3) /\ error.and = PositionDir(1)

LocalNames(names) == names \cap graphKeys(graph)
BackedByGraph(map) ==
  \A d \in DOMAIN map : map[d] = graphGet(graph, d) /\ map[d] \in DOMAIN graph
                        /\ graph[map[d]].name = d

\* C9: after a successful fromPackages, the keys of localDependencies,
\* localDevDependencies and localOptionalDependencies of every node are the
\* names its descriptor lists under dependencies, devDependencies and
\* optionalDependencies that are keys of the graph (other names are
\* dropped), and every entry of every neighbor map under a name d refers to
\* the node the graph stores under d.
C9_NeighborsAreLocalNodes ==
  pc = "done" =>
    \A k \in DOMAIN graph :
      LET node == graph[k]
          json == packages[k].packageJson
      IN /\ DOMAIN node.localDependencies = LocalNames(json.dependencies)
         /\ DOMAIN node.localDevDependencies = LocalNames(json.devDependencies)
         /\ DOMAIN node.localOptionalDependencies =
              LocalNames(json.optionalDependencies)
         /\ BackedByGraph(node.localDependencies)
         /\ BackedByGraph(node.localDevDependencies)
         /\ BackedByGraph(node.localOptionalDependencies)
         /\ BackedByGraph(node.allLocalDependencies)
         /\ BackedByGraph(node.publishedLocalDependencies)

\* a node that lists an external name and the name of another local package
C9_Witness ==
  /\ pc = "done"
  /\ \E k \in DOMAIN graph :
       /\ "x" \in graph[k].packageJson.dependencies
       /\ \E d \in DOMAIN graph[k].localDependencies : d # graph[k].name

\* the union of Maps that agree on shared keys
MapUnion(m1, m2) ==
  [d \in DOMAIN m1 \cup DOMAIN m2 |-> IF d \in DOMAIN m1 THEN m1[d] ELSE m2[d]]

\* C10: after a successful fromPackages, allLocalDependencies of every node
\* has exactly the entries of localDependencies, localDevDependencies and
\* localOptionalDependencies together, and publishedLocalDependencies exactly
\* those of localDependencies and localOptionalDependencies: a dev-only name
\* is not published, a name that is both a dependency and a dev dependency is.
C10_AggregateViews ==
  pc = "done" =>
    \A k \in DOMAIN graph :
      LET node == graph[k]
      IN /\ node.allLocalDependencies =
              MapUnion(MapUnion(node.localDependencies, node.localDevDependencies),
                       node.localOptionalDependencies)
         /\ node.publishedLocalDependencies =
              MapUnion(node.localDependencies, node.localOptionalDependencies)
         /\ \A d \in DOMAIN node.localDevDependencies :
              d \in DOMAIN node.publishedLocalDependencies
                <=> d \in DOMAIN node.localDependencies
                      \cup DOMAIN node.localOptionalDependencies

\* one node with a dev-only local name, another with a name that is both a
\* dependency and a dev dependency
C10_Witness ==
  /\ pc = "done"
  /\ \E k \in DOMAIN graph :
       \E d \in DOMAIN graph[k].localDevDependencies :
         d \notin DOMAIN graph[k].publishedLocalDependencies
  /\ \E k \in DOMAIN graph :
       \E d \in DOMAIN graph[k].localDevDependencies :
         d \in DOMAIN graph[k].localDependencies

----------------------------------------------------------------------------
(* Properties of collectPackageNames *)

\* the names collectFn yields for the node stored under a key of the graph
Yielded(name) == Range(collectFn[name].names)
YieldedBy(names) == UNION {Yielded(n) : n \in names \cap graphKeys(graph)}

\* the least set that contains S and is closed under collectFn
RECURSIVE Reachable(_)
Reachable(S) ==
  LET next == S \cup YieldedBy(S)
  IN IF next = S THEN S ELSE Reachable(next)

\* C4: when collectPackageNames returns (every start name and every name
\* yielded on a visited node then being a key of the graph), the returned set
\* is the least set that contains the start names and is closed under
\* collectFn: it depends on the set of start names only, not on their order
\* or repetition, and cycles do not change it.
C4_ReturnsReachableSet ==
  pc = "done" => targets = Reachable(Range(startingPackageNames))

\* a repeated start name on a two-node cycle
C4_Witness ==
  /\ pc = "done"
  /\ startingPackageNames = <<"a", "a">>
  /\ "b" \in Yielded("a") /\ "a" \in Yielded("b")
  /\ targets = {"a", "b"}

\* C5: collectPackageNames never returns when a start name or a name
\* yielded by collectFn on a visited node is not a key of the graph; when it
\* throws, the error carries such a name; and no error is raised while the
\* name is only pending in searchNames.
C5_NotFoundFails ==
  LET encountered == Range(startingPackageNames) \cup YieldedBy(targets)
  IN /\ pc = "done" => encountered \subseteq graphKeys(graph)
     /\ pc = "failed" =>
          /\ error.kind = "Package not found"
          /\ error.name \in encountered \ graphKeys(graph)
     /\ pc = "search" => error = NoError

\* the missing name was yielded by a visited node and is no start name
C5_Witness ==
  /\ pc = "failed"
  /\ error.name = "x"
  /\ "x" \notin Range(startingPackageNames)
  /\ "x" \in YieldedBy(targets)

\* C6: collectPackageNames terminates: every run reaches the return or the throw.
C6_Terminates == <>(pc \in {"done", "failed"})

\* the traversal returned on a graph with a two-node cycle and a self-reference
C6_Witness ==
  /\ pc = "done"
  /\ "a" \in Yielded("a") /\ "b" \in Yielded("a") /\ "a" \in Yielded("b")
  /\ targets = {"a", "b"}

CallsFor(name) == {c \in DOMAIN calls : calls[c].name = name}

\* C7: at every point of a run, collectFn has been called exactly once for
\* each name in targets, with the node the graph stores under that name, and
\* not at all for any other name.
C7_CollectFnOncePerName ==
  /\ \A c \in DOMAIN calls :
       /\ calls[c].node = graphGet(graph, calls[c].name)
       /\ calls[c].node \in DOMAIN graph
       /\ graph[calls[c].node].name = calls[c].name
  /\ \A name \in SearchableNames :
       Cardinality(CallsFor(name)) = IF name \in targets THEN 1 ELSE 0

\* "a" is given twice, yielded by two nodes and lies on a cycle
C7_Witness ==
  /\ pc = "done"
  /\ startingPackageNames = <<"a", "a">>
  /\ "a" \in Yielded("a") /\ "a" \in Yielded("b") /\ "b" \in Yielded("a")
  /\ Len(calls) = 2

----------------------------------------------------------------------------
(* Properties of listChangedPackages *)

\* the directory prefix of the package at position k: its root-relative
\* directory followed by "/"
PrefixOf(k) == normalize(relativePath(TargetRoot, graph[k].dir)) \o <<47>>
HasChangedFile(k) == \E f \in Range(changedFiles) : startsWith(f, PrefixOf(k))
Nested(outer, inner) == outer # inner /\ startsWith(PrefixOf(inner), PrefixOf(outer))
NoNesting == \A j, k \in DOMAIN graph : ~Nested(j, k)

\* C1: when no package prefix is a prefix of another's, the returned list is
\* exactly the packages with at least one changed file that starts with
\* their prefix, each once, in ascending order of the prefixes.
C1_ChangedPackagesSorted ==
  (pc = "done" /\ NoNesting) =>
    /\ Range(result) = {k \in DOMAIN graph : HasChangedFile(k)}
    /\ \A i, j \in DOMAIN result :
         i < j => StrLess(PrefixOf(result[i]), PrefixOf(result[j]))

\* two changed packages whose insertion order is not their prefix order,
\* a file changed twice and a file under no package
C1_Witness ==
  /\ pc = "done" /\ NoNesting
  /\ result = <<2, 1>>
  /\ \E i \in DOMAIN changedFiles : ~\E k \in DOMAIN graph :
       startsWith(changedFiles[i], PrefixOf(k))
  /\ Len(changedFiles) = 3

\* C2: a changed file under the inner of two nested package directories is
\* attributed to both: the outer and the inner package are in the result.
C2_NestedBothReported ==
  pc = "done" =>
    \A outer, inner \in DOMAIN graph :
      (Nested(outer, inner) /\ HasChangedFile(inner)) =>
        (outer \in Range(result) /\ inner \in Range(result))

\* C3: every package in the result has a changed file that starts with its
\* prefix, trailing "/" included, whether or not packages are nested; with
\* no changed files the result is empty.
C3_OnlyOwnersReported ==
  /\ \A k \in Range(result) : k \in DOMAIN graph /\ HasChangedFile(k)
  /\ changedFiles = <<>> => result = <<>>

\* packages at "a" and "aa", the only changed file is below "aa"
C3_Witness ==
  /\ pc = "done"
  /\ {PrefixOf(k) : k \in DOMAIN graph} = {a \o sep, a \o a \o sep}
  /\ changedFiles = <<a \o a \o sep \o b>>
  /\ Len(result) = 1 /\ PrefixOf(result[1]) = a \o a \o sep

====
